---- MODULE Spec2Model ----
(***************************************************************************)
(* Method-of-lines right-hand sides of the two notebooks:                  *)
(*   - the 2-D damped wave equation with external force                    *)
(*     (A2_2D_wave_damped_wave_equation_external_force.ipynb), and         *)
(*   - the 1-D heat equation (unnamed/part_000).                           *)
(*                                                                         *)
(* Numbers.  The notebooks compute in floating point.  The model computes  *)
(* in exact rational arithmetic: a scalar is a record [n, d] (numerator,   *)
(* positive denominator) and an array is a record [d, v] holding one       *)
(* common positive denominator d and the integer numerators v, indexed     *)
(* from 0 like a numpy array.  Rounding is not modelled.                   *)
(***************************************************************************)
EXTENDS Integers, Sequences, FiniteSets, TLC

-----------------------------------------------------------------------------
(* Rational scalars *)

Rat(n, d) == [n |-> n, d |-> d]

RECURSIVE Gcd(_, _)
Gcd(m, k) == IF k = 0 THEN (IF m < 0 THEN -m ELSE m) ELSE Gcd(k, m % k)

Abs(k) == IF k < 0 THEN -k ELSE k

RNorm(r) ==
  LET g == Gcd(Abs(r.n), r.d)
  IN  IF g = 0 THEN r ELSE Rat(r.n \div g, r.d \div g)

RAdd(r, s) == RNorm(Rat(r.n * s.d + s.n * r.d, r.d * s.d))
RNeg(r)    == Rat(-r.n, r.d)
RSub(r, s) == RAdd(r, RNeg(s))
RMul(r, s) == RNorm(Rat(r.n * s.n, r.d * s.d))
\* division by a positive rational
RDiv(r, s) == RNorm(Rat(r.n * s.d, r.d * s.n))
\* equality of the reduced forms (denominators are positive)
REq(r, s)  == RNorm(r) = RNorm(s)
RLt(r, s)  == r.n * s.d < s.n * r.d
RLe(r, s)  == r.n * s.d <= s.n * r.d
RInt(k)    == Rat(k, 1)

Min(p, q) == IF p < q THEN p ELSE q
Max(p, q) == IF p > q THEN p ELSE q

-----------------------------------------------------------------------------
(* Wave notebook: constants of the "Define constants" cell and the literals *)
(* of external_force.                                                       *)

a == Rat(1, 10)          \* a = 0.1
c == Rat(1, 2)           \* c = 0.5
B_ref == 1               \* B = 1
dx_ref == Rat(1, 4)      \* dx = 0.25
dy_ref == Rat(1, 4)      \* dy = 0.25
lx_ref == Rat(10, 1)     \* lx = 10
ly_ref == Rat(10, 1)     \* ly = 10

t_lo_start == Rat(0, 1)  \* a variant whose forcing begins at the start time
t_lo == Rat(1, 1)        \* t > 1
t_hi == Rat(4, 1)        \* t < 4.0
x_lo_origin == Rat(0, 1) \* a variant whose window starts at the domain edge
x_lo == Rat(5, 2)        \* x >= 2.5
x_hi == Rat(7, 2)        \* x <= 3.5
y_lo == Rat(3, 2)        \* y >= 1.5
y_hi == Rat(9, 2)        \* y <= 4.5

-----------------------------------------------------------------------------
(* Grid cell: Nx = int(lx/dx) + 1, x = np.linspace(0, lx, Nx) *)

\* int(p/q) for integers p and q # 0: int truncates towards zero
TruncDiv(p, q) ==
  IF (p < 0) # (q < 0) THEN -(Abs(p) \div Abs(q)) ELSE Abs(p) \div Abs(q)

\* a variant without the + 1
GridNIntervals(l, d) == TruncDiv(l.n * d.d, l.d * d.n)

\* int(l/d) + 1 for rationals l and d # 0
GridN(l, d) == TruncDiv(l.n * d.d, l.d * d.n) + 1

\* a variant that leaves the endpoint out (spacing l / N)
linspaceNoEndpoint(l, N) == [i \in 0..(N - 1) |-> Rat(i * l.n, l.d * N)]

\* np.linspace(0, l, N): N points, the i-th at 0 + i * (l - 0)/(N - 1);
\* a single point is the start
linspace(l, N) ==
  [i \in 0..(N - 1) |-> IF N = 1 THEN Rat(0, 1) ELSE Rat(i * l.n, l.d * (N - 1))]

-----------------------------------------------------------------------------
(* external_force(x, y, t, B, Nx, Ny) *)

ZeroField(nx, ny) == [i \in 0..(nx - 1) |-> [j \in 0..(ny - 1) |-> 0]]

\* a variant whose upper time bound is inclusive
ForceTimeUpperClosed(tt) == RLe(tt, t_hi) /\ RLt(t_lo, tt)

\* if t < 4.0 and t > 1
ForceTimeOpen(tt) == RLt(tt, t_hi) /\ RLt(t_lo, tt)

\* a variant whose lower x bound is exclusive
IndXLowerOpen(xg) == {i \in DOMAIN xg : RLt(x_lo, xg[i]) /\ RLe(xg[i], x_hi)}

\* np.where((x >= 2.5) & (x <= 3.5))[0]
IndX(xg) == {i \in DOMAIN xg : RLe(x_lo, xg[i]) /\ RLe(xg[i], x_hi)}

\* a variant whose upper y bound is exclusive
IndYUpperOpen(yg) == {j \in DOMAIN yg : RLe(y_lo, yg[j]) /\ RLt(yg[j], y_hi)}

\* np.where((y >= 1.5) & (y <= 4.5))[0]
IndY(yg) == {j \in DOMAIN yg : RLe(y_lo, yg[j]) /\ RLe(yg[j], y_hi)}

\* u = zeros((Nx, Ny)); inside the time window u[ix, iy] = B for every
\* ix in ind_x and iy in ind_y.  The grids handed in have Nx and Ny points.
external_force(xg, yg, tt, BB, nx, ny) ==
  LET ind_x == IndX(xg)
      ind_y == IndY(yg)
  IN  IF ForceTimeOpen(tt)
        THEN [i \in 0..(nx - 1) |-> [j \in 0..(ny - 1) |->
                IF i \in ind_x /\ j \in ind_y THEN BB ELSE 0]]
        ELSE ZeroField(nx, ny)

-----------------------------------------------------------------------------
(* numpy basic slicing and reshaping *)

\* a slice bound k on an axis of length n: negative counts from the end,
\* and the result is clipped to 0..n
SliceBound(k, n) == IF k < 0 THEN Max(k + n, 0) ELSE Min(k, n)

\* the indices start:stop selects on an axis of length n: the len consecutive
\* indices lo, lo + 1, ...
Slice(start, stop, n) ==
  LET lo == SliceBound(start, n)
      hi == SliceBound(stop, n)
  IN  [lo |-> lo, len |-> Max(hi - lo, 0)]

\* the k-th index a slice selects, k = 0, 1, ...
Sel(s, k) == s.lo + k
\* the positions 0 .. len-1 of a slice
Positions(s) == 0..(s.len - 1)

\* start: (no stop) and :stop (no start)
SliceFrom(start, n) == Slice(start, n, n)
SliceTo(stop, n)    == Slice(0, stop, n)

Size(v) == Cardinality(DOMAIN v)

\* a variant that reads the cells in column-major order
ReshapeColumnMajor(v, sl, nx, ny) ==
  [i \in 0..(nx - 1) |-> [j \in 0..(ny - 1) |-> v[Sel(sl, j * nx + i)]]]

\* v[sl].reshape(nx, ny) for a slice sl of nx*ny indices: row-major, cell
\* (i, j) is the (i*ny + j)-th selected element
Reshape(v, sl, nx, ny) ==
  [i \in 0..(nx - 1) |-> [j \in 0..(ny - 1) |-> v[Sel(sl, i * ny + j)]]]

\* f.reshape(nx*ny,): row-major flattening of an (nx, ny) field
Flatten(f, nx, ny) == [k \in 0..(nx * ny - 1) |-> f[k \div ny][k % ny]]

\* np.concatenate((p, q)) of two flat arrays
Concatenate(p, q) ==
  LET np == Size(p)
      nq == Size(q)
  IN  [k \in 0..(np + nq - 1) |-> IF k < np THEN p[k] ELSE q[k - np]]

-----------------------------------------------------------------------------
(* Wave odefun(u, t, B, a, c, x, y, dx, dy, Nx, Ny) *)

\* Denominators.  With the argument's numerators over u.d, every term of
\* the result is brought over the common denominator u.d * Kq(dx, dy):
\*   c**2 * X / dx**2  has numerator Kx * X,
\*   c**2 * Y / dy**2  has numerator Ky * Y,
\*   a * y2            has numerator Ka * y2,
\*   f_ext             has numerator Kq * u.d * f_ext,
\*   y2                has numerator Kq * y2.
KxRaw(dx, dy) == a.d * c.n * c.n * dx.d * dx.d * dy.n * dy.n
KyRaw(dx, dy) == a.d * c.n * c.n * dy.d * dy.d * dx.n * dx.n
KaRaw(dx, dy) == a.n * c.d * c.d * dx.n * dx.n * dy.n * dy.n
KqRaw(dx, dy) == a.d * c.d * c.d * dx.n * dx.n * dy.n * dy.n
KGcd(dx, dy)  == Gcd(Gcd(KxRaw(dx, dy), KyRaw(dx, dy)), Gcd(KaRaw(dx, dy), KqRaw(dx, dy)))
Kx(dx, dy) == KxRaw(dx, dy) \div KGcd(dx, dy)
Ky(dx, dy) == KyRaw(dx, dy) \div KGcd(dx, dy)
Ka(dx, dy) == KaRaw(dx, dy) \div KGcd(dx, dy)
Kq(dx, dy) == KqRaw(dx, dy) \div KGcd(dx, dy)

\* the result of a call: a value or the exception it ends in
Ok(d, v)   == [status |-> "ok", d |-> d, v |-> v]
Raised(e)  == [status |-> e, d |-> 1, v |-> <<>>]

\* u[:Nx*Ny] and u[Nx*Ny:]
Y1Slice(len, nx, ny) == SliceTo(nx * ny, len)
Y2Slice(len, nx, ny) == SliceFrom(nx * ny, len)

\* reshape raises ValueError unless the slice holds exactly Nx*Ny elements
UnpackOk(len, nx, ny) ==
  /\ Y1Slice(len, nx, ny).len = nx * ny
  /\ Y2Slice(len, nx, ny).len = nx * ny

\* y1 = u[:Nx*Ny].reshape(Nx,Ny)
unpack_y1(v, nx, ny) == Reshape(v, Y1Slice(Size(v), nx, ny), nx, ny)
\* y2 = u[Nx*Ny:].reshape(Nx,Ny)
unpack_y2(v, nx, ny) == Reshape(v, Y2Slice(Size(v), nx, ny), nx, ny)

\* np.concatenate((dy1dt.reshape(Nx*Ny,), dy2dt.reshape(Nx*Ny,)))
pack(f1, f2, nx, ny) == Concatenate(Flatten(f1, nx, ny), Flatten(f2, nx, ny))

\* a variant that reads the centre row in place of the row below it
StencilUpCentre(nx) == Slice(1, -1, nx)

\* a variant that starts the written rows at 0
StencilRowsFromZero(nx) == Slice(0, -2, nx)

\* the slices of the stencil assignment
\*   dy2dt[1:-1, 1:-1] = c**2*((y1[2:, 1:-1] - 2*y1[1:-1, 1:-1] + y1[:-2,1:-1]) / (dx)**2
\*                     + (y1[1:-1, 2:] - 2*y1[1:-1, 1:-1] + y1[1:-1,:-2]) / (dy)**2)
StencilRows(nx) == Slice(1, -1, nx)      \* 1:-1 on axis 0
StencilCols(ny) == Slice(1, -1, ny)      \* 1:-1 on axis 1
StencilUp(nx) == SliceFrom(2, nx)        \* 2:   on axis 0
StencilDown(nx)  == SliceTo(-2, nx)      \* :-2  on axis 0
StencilRight(ny) == SliceFrom(2, ny)     \* 2:   on axis 1
StencilLeft(ny)  == SliceTo(-2, ny)      \* :-2  on axis 1

\* elementwise arithmetic and the assignment need equal shapes (no operand
\* here can broadcast: all are slices of the same two axes)
StencilShapesOk(nx, ny) ==
  /\ StencilUp(nx).len = StencilRows(nx).len
  /\ StencilDown(nx).len = StencilRows(nx).len
  /\ StencilRight(ny).len = StencilCols(ny).len
  /\ StencilLeft(ny).len = StencilCols(ny).len

\* the cells of y1 the right-hand side of the assignment reads
StencilReads(nx, ny) ==
  UNION {{<<Sel(StencilUp(nx), k), Sel(StencilCols(ny), l)>>,
          <<Sel(StencilRows(nx), k), Sel(StencilCols(ny), l)>>,
          <<Sel(StencilDown(nx), k), Sel(StencilCols(ny), l)>>,
          <<Sel(StencilRows(nx), k), Sel(StencilRight(ny), l)>>,
          <<Sel(StencilRows(nx), k), Sel(StencilLeft(ny), l)>>} :
         <<k, l>> \in Positions(StencilRows(nx)) \X Positions(StencilCols(ny))}

\* the cells of dy2dt the assignment writes
StencilWrites(nx, ny) ==
  {<<Sel(StencilRows(nx), k), Sel(StencilCols(ny), l)>> :
     <<k, l>> \in Positions(StencilRows(nx)) \X Positions(StencilCols(ny))}

\* index i is selected by slice s, and at which position
InSlice(s, i) == s.lo <= i /\ i < s.lo + s.len
Pos(s, i)     == i - s.lo

\* dy2dt after the stencil assignment into the zero buffer np.zeros((Nx, Ny))
\* (numerators over d * Kq for a y1 with numerators over d)
Laplacian(y1, dx, dy, nx, ny) ==
  LET rows  == StencilRows(nx)
      cols  == StencilCols(ny)
      up    == StencilUp(nx)
      down  == StencilDown(nx)
      right == StencilRight(ny)
      left  == StencilLeft(ny)
      kx    == Kx(dx, dy)
      ky    == Ky(dx, dy)
  IN  [i \in 0..(nx - 1) |-> [j \in 0..(ny - 1) |->
        IF InSlice(rows, i) /\ InSlice(cols, j)
          THEN LET k == Pos(rows, i)
                   l == Pos(cols, j)
               IN  kx * (y1[Sel(up, k)][Sel(cols, l)] - 2 * y1[Sel(rows, k)][Sel(cols, l)]
                           + y1[Sel(down, k)][Sel(cols, l)])
                 + ky * (y1[Sel(rows, k)][Sel(right, l)] - 2 * y1[Sel(rows, k)][Sel(cols, l)]
                           + y1[Sel(rows, k)][Sel(left, l)])
          ELSE 0]]

\* a variant that damps the interior cells only
AddOtherTermsInterior(buf, y2, f_ext, d, dx, dy, nx, ny) ==
  [i \in 0..(nx - 1) |-> [j \in 0..(ny - 1) |->
     IF 0 < i /\ i < nx - 1 /\ 0 < j /\ j < ny - 1
       THEN buf[i][j] - Ka(dx, dy) * y2[i][j] + Kq(dx, dy) * d * f_ext[i][j]
       ELSE buf[i][j]]]

\* dy2dt = dy2dt - a*y2 + f_ext   (every cell)
AddOtherTerms(buf, y2, f_ext, d, dx, dy, nx, ny) ==
  LET ka == Ka(dx, dy)
      kq == Kq(dx, dy)
  IN  [i \in 0..(nx - 1) |-> [j \in 0..(ny - 1) |->
        buf[i][j] - ka * y2[i][j] + kq * d * f_ext[i][j]]]

\* a variant in which the displacement does not follow the velocity
Dy1dtAtRest(y2, dx, dy, nx, ny) == ZeroField(nx, ny)

\* dy1dt = y2 (numerators brought over d * Kq)
Dy1dt(y2, dx, dy, nx, ny) ==
  LET kq == Kq(dx, dy)
  IN  [i \in 0..(nx - 1) |-> [j \in 0..(ny - 1) |-> kq * y2[i][j]]]

odefun(u, tt, BB, xg, yg, dx, dy, nx, ny) ==
  IF ~UnpackOk(Size(u.v), nx, ny) \/ ~StencilShapesOk(nx, ny)
    THEN Raised("ValueError")
    ELSE LET y1    == unpack_y1(u.v, nx, ny)
             y2    == unpack_y2(u.v, nx, ny)
             dy1dt == Dy1dt(y2, dx, dy, nx, ny)
             f_ext == external_force(xg, yg, tt, BB, nx, ny)
             buf   == Laplacian(y1, dx, dy, nx, ny)
             dy2dt == AddOtherTerms(buf, y2, f_ext, u.d, dx, dy, nx, ny)
         IN  Ok(u.d * Kq(dx, dy), pack(dy1dt, dy2dt, nx, ny))

\* The array each name of odefun refers to when line 171 runs: y1 and y2 are
\* views of the argument u (basic slices, reshaped without a copy), dy1dt = y2
\* is the same view, dy2dt is the fresh np.zeros((Nx, Ny)) and f_ext the fresh
\* array external_force built.
Views == [y1 |-> "u", y2 |-> "u", dy1dt |-> "u", dy2dt |-> "new", f_ext |-> "new"]

\* a variant in which the stencil is assigned into dy1dt
StencilTargetDy1dt == "dy1dt"

\* the array whose [1:-1, 1:-1] cells the stencil assignment writes in place
StencilTarget == "dy2dt"

\* The argument array as a call leaves it.  The one in-place write of odefun
\* is the stencil assignment; every other statement binds a name to a new
\* array, and np.concatenate copies.  A call that raises at the reshape has
\* written nothing.
InputAfter(u, dx, dy, nx, ny) ==
  IF ~UnpackOk(Size(u.v), nx, ny) \/ ~StencilShapesOk(nx, ny) \/ Views[StencilTarget] # "u"
    THEN u
    ELSE LET lap == Laplacian(unpack_y1(u.v, nx, ny), dx, dy, nx, ny)
             sl  == Y2Slice(Size(u.v), nx, ny)
             kq  == Kq(dx, dy)
         IN  [d |-> u.d * kq,
              v |-> [k \in DOMAIN u.v |->
                      IF InSlice(sl, k)
                           /\ <<Pos(sl, k) \div ny, Pos(sl, k) % ny>> \in StencilWrites(nx, ny)
                        THEN lap[Pos(sl, k) \div ny][Pos(sl, k) % ny]
                        ELSE kq * u.v[k]]]

-----------------------------------------------------------------------------
(* Arrays with a common denominator *)

Lcm(m, k) == m * (k \div Gcd(m, k))

\* p + h * q for arrays p, q of one length and a rational h with h.d > 0
VAxpy(p, h, q) ==
  LET dq == q.d * h.d
      dd == Lcm(p.d, dq)
      fp == dd \div p.d
      fq == (dd \div dq) * h.n
  IN  [d |-> dd, v |-> [k \in DOMAIN p.v |-> fp * p.v[k] + fq * q.v[k]]]

\* np.zeros((n,))
Zeros(n) == [k \in 0..(n - 1) |-> 0]

\* the rational value of entry k of an array
At(p, k) == Rat(p.v[k], p.d)

-----------------------------------------------------------------------------
(* Heat notebook *)

Nx_heat == 10            \* Nx = 10
c_heat == Rat(5, 1)      \* 'c': 5
a_heat == Rat(1, 100)    \* 'a': 0.01
x_len_heat == Rat(1, 1)  \* np.linspace(0,1,Nx+1)

\* a variant whose x has Nx points
ParamsXOfNx(cc, qq, aa, nx) ==
  [c |-> cc, q |-> qq, x |-> linspace(x_len_heat, nx), a |-> aa, Nx |-> nx]

\* params = {'c': ..., 'q': ..., 'x': np.linspace(0,1,Nx+1), 'a': ..., 'Nx': Nx}
Params(cc, qq, aa, nx) ==
  [c |-> cc, q |-> qq, x |-> linspace(x_len_heat, nx + 1), a |-> aa, Nx |-> nx]

\* np.diff(v, axis=0) of a flat array of rationals: v[i+1] - v[i]
diff(v) == [i \in 0..(Size(v) - 2) |-> RSub(v[i + 1], v[i])]

\* the rationals of an array with a common denominator
Rats(p) == [k \in DOMAIN p.v |-> Rat(p.v[k], p.d)]

RECURSIVE LcmOfDens(_, _)
LcmOfDens(r, n) == IF n = 0 THEN 1 ELSE Lcm(LcmOfDens(r, n - 1), r[n - 1].d)

\* an array of rationals brought over one common denominator
Common(r) ==
  LET dd == LcmOfDens(r, Size(r))
  IN  [d |-> dd, v |-> [k \in DOMAIN r |-> r[k].n * (dd \div r[k].d)]]

\* The length two 1-D arrays of lengths m and n broadcast to in an
\* elementwise operation: equal lengths, or one of them 1; -1 when numpy
\* raises ValueError (operands could not be broadcast together)
Broadcast(m, n) ==
  IF m = n THEN m ELSE IF m = 1 THEN n ELSE IF n = 1 THEN m ELSE -1

\* target[...] = value for a target of tl cells and a value of vl elements:
\* the value is broadcast to the target, else numpy raises ValueError
AssignOk(tl, vl) == vl = tl \/ vl = 1

\* element i of an array of n elements taking part in a broadcast
Bc(v, n, i) == IF n = 1 THEN v[0] ELSE v[i]

\* number of elements of np.diff of a flat array of n elements
DiffLen(n) == Max(n - 1, 0)

\* a variant that also fills element 0 of dq_left (periodic wrap)
DqLeftWrapped(q, nx) ==
  LET dqv == diff(q)
  IN  [i \in 0..(nx - 1) |-> IF i >= 1 THEN RNeg(dqv[i - 1]) ELSE RNeg(RSub(q[0], q[nx - 1]))]

\* dq_left = np.zeros((Nx,)); dq_left[1:] = -1.0*np.diff(q, axis=0)
DqLeft(q, nx) ==
  LET dqv == diff(q)
      tgt == SliceFrom(1, nx)
  IN  [i \in 0..(nx - 1) |->
        IF InSlice(tgt, i) THEN RNeg(Bc(dqv, Size(dqv), Pos(tgt, i))) ELSE Rat(0, 1)]

\* dq_right = np.zeros((Nx,)); dq_right[:-1] = np.diff(q, axis=0)
DqRight(q, nx) ==
  LET dqv == diff(q)
      tgt == SliceTo(-1, nx)
  IN  [i \in 0..(nx - 1) |->
        IF InSlice(tgt, i) THEN Bc(dqv, Size(dqv), Pos(tgt, i)) ELSE Rat(0, 1)]

\* a variant that subtracts the two parts
DqDifference(q, nx) == [i \in 0..(nx - 1) |-> RSub(DqLeft(q, nx)[i], DqRight(q, nx)[i])]

\* dq = dq_left + dq_right
Dq(q, nx) == [i \in 0..(nx - 1) |-> RAdd(DqLeft(q, nx)[i], DqRight(q, nx)[i])]

\* the two slice assignments of lines 81 and 82 raise nothing: np.diff(q)
\* fits dq_left[1:] and dq_right[:-1]
HeatAssignsOk(pp) ==
  /\ AssignOk(SliceFrom(1, pp.Nx).len, DiffLen(Size(pp.q.v)))
  /\ AssignOk(SliceTo(-1, pp.Nx).len, DiffLen(Size(pp.q.v)))

\* the length of (dq/np.diff(x) - s) for a y of len elements, -1 when the
\* operands do not broadcast
HeatResultLen(len, pp) ==
  LET lq == Broadcast(pp.Nx, DiffLen(Size(pp.x)))
  IN  IF lq = -1 THEN -1 ELSE Broadcast(lq, len)

\* no statement of odefun raises
HeatShapesOk(len, pp) == HeatAssignsOk(pp) /\ HeatResultLen(len, pp) >= 0

\* a variant with the sign of the source term flipped
HeatCellSourceAdded(dqi, dxi, yi, pp) ==
  RNeg(RMul(RDiv(Rat(1, 1), pp.c), RAdd(RDiv(dqi, dxi), RMul(yi, pp.a))))

\* one entry of -params['c']**(-1) * (dq/np.diff(params['x']) - s), s = y * params['a']
HeatCell(dqi, dxi, yi, pp) ==
  RMul(RNeg(RDiv(Rat(1, 1), pp.c)), RSub(RDiv(dqi, dxi), RMul(yi, pp.a)))

\* odefun(t, y, params) of the heat notebook
odefun_heat(tt, yy, pp) ==
  IF ~HeatShapesOk(Size(yy.v), pp)
    THEN Raised("ValueError")
    ELSE LET dq  == Dq(Rats(pp.q), pp.Nx)
             dxv == diff(pp.x)
             yr  == Rats(yy)
             ly  == Size(yy.v)
             lx  == Size(dxv)
             rl  == HeatResultLen(ly, pp)
             dTdt == Common([i \in 0..(rl - 1) |->
                       HeatCell(Bc(dq, pp.Nx, i), Bc(dxv, lx, i), Bc(yr, ly, i), pp)])
         IN  Ok(dTdt.d, dTdt.v)

\* The array each name of the heat odefun refers to: s, dq_left, dq_right,
\* dq and dTdt are new arrays; params['q'], params['x'] and y are only read.
HeatViews == [s |-> "new", dq_left |-> "new", dq_right |-> "new", dq |-> "new", dTdt |-> "new",
              q |-> "q"]

\* a variant in which line 81 assigns into params['q']
HeatAssignTargetQ == "q"

\* the array whose [1:] cells line 81 writes in place
HeatAssignTarget == "dq_left"

\* params as a call leaves it
ParamsAfter(pp) ==
  IF ~HeatAssignsOk(pp) \/ HeatViews[HeatAssignTarget] # "q"
    THEN pp
    ELSE LET qr  == Rats(pp.q)
             dqv == diff(qr)
             tgt == SliceFrom(1, Size(qr))
             nq  == Common([i \in DOMAIN qr |->
                      IF InSlice(tgt, i) THEN RNeg(Bc(dqv, Size(dqv), Pos(tgt, i))) ELSE qr[i]])
         IN  [pp EXCEPT !.q = nq]

\* T_init = np.ones((10,)); T_init[5] = 4
T_init == [d |-> 1, v |-> [k \in 0..9 |-> IF k = 5 THEN 4 ELSE 1]]

-----------------------------------------------------------------------------------------------------------------------------------------------------
(* Drivers: the literals of the two solve_ivp calls *)

t0_wave == Rat(0, 1)       \* (0, 100)
tf_wave == Rat(100, 1)
n_eval_wave == 101         \* t_eval=np.linspace(0,100, 101)
t0_heat == Rat(0, 1)       \* (0, 50)
tf_heat == Rat(50, 1)
n_eval_heat == 51          \* t_eval = np.linspace(0,50,51)

\* a variant with one state block only
u_start_one_block(nx, ny) == [d |-> 1, v |-> Zeros(nx * ny)]

\* u_start = np.zeros((2*Nx*Ny,))
u_start(nx, ny) == [d |-> 1, v |-> Zeros(2 * nx * ny)]

\* a variant whose driver cell wraps the call in try/except ValueError
DriverCatchesValueError == {"ValueError"}

\* the exception types the driver cells catch: the solve_ivp call stands in
\* no try block, in either notebook
DriverCatches == {}

-----------------------------------------------------------------------------
(* State *)

VARIABLES
  pipeline,    \* which notebook runs: "wave" or "heat"
  params,      \* the heat notebook's params dictionary
  lx, ly,      \* domain lengths
  dx, dy,      \* grid resolution
  Nx, Ny,      \* number of grid points
  x, y,        \* grid point vectors
  B,           \* magnitude of the external force
  u,           \* the integrator's current state vector
  t,           \* time argument of the latest odefun call
  arg,         \* state argument of the recorded odefun call
  f_ext,       \* the field external_force returned in the recorded call
  res,         \* what the recorded odefun call returned (or raised)
  K,           \* the derivative vectors of the current step's stages
  steps,       \* number of completed steps
  nfev,        \* number of right-hand-side evaluations
  pc,          \* "idle" before any call, "called" after one
  buf,         \* the array handed to the recorded call, as the call left it
  calls,       \* the recorded calls so far, in order: time, argument, outcome
  tn,          \* the integrator's current time
  drv,         \* the notebook's position: "config", "ready", "integrating",
               \* "returned" (the driver cell ended normally), "raised"
  err,         \* the exception that ended a cell, "none" if none did
  sol,         \* what solve_ivp returned, once the driver cell assigned it
  shown,       \* the plotting cell has read sol.y
  req,         \* the t_span and t_eval solve_ivp was called with
  disp,        \* the sampled times t > 1 that are step ends at which y1 is
               \* non-zero somewhere in the forcing window
  winSteps     \* completed steps that started at a time in (1, 4)

waveVars == <<lx, ly, dx, dy, Nx, Ny, x, y, B, u, t, arg, f_ext, res, K, steps, nfev, pc>>
drvVars == <<buf, calls, tn, drv, err, sol, shown, req, disp, winSteps>>
vars == <<pipeline, params, waveVars, drvVars>>

\* the lambda handed to solve_ivp:
\*   wave: lambda t,u: odefun(u,t,B,a,c,x,y,dx,dy,Nx,Ny)
\*   heat: lambda t,y: odefun(t,y,params)
\* solve_ivp calls it as fun(t, y): p1 is the time, p2 the state vector.
\* What each lambda passes on to the parameters of its odefun:

\* a variant that passes the two arguments on in the order received
LambdaWaveInOrder(p1, p2) == [u |-> p1, t |-> p2]

\* lambda t,u: odefun(u,t,...) for def odefun(u, t, B, a, c, x, y, dx, dy, Nx, Ny)
LambdaWave(p1, p2) == [u |-> p2, t |-> p1]

\* lambda t,y: odefun(t,y,params) for def odefun(t,y,params)
LambdaHeat(p1, p2) == [t |-> p1, y |-> p2]

\* a value is an array (and can be sliced), not a scalar
IsArray(v) == DOMAIN v = {"d", "v"}

\* the wave odefun slices its first parameter on line 162: a float there
\* raises TypeError ('float' object is not subscriptable)
rhs(tt, uu) ==
  IF pipeline = "heat"
    THEN LET b == LambdaHeat(tt, uu) IN odefun_heat(b.t, b.y, params)
    ELSE LET b == LambdaWave(tt, uu)
         IN  IF IsArray(b.u)
               THEN odefun(b.u, b.t, B, x, y, dx, dy, Nx, Ny)
               ELSE Raised("TypeError")

\* the array handed to the lambda, as the call leaves it
ArgAfter(uu) ==
  IF pipeline = "heat" THEN uu ELSE InputAfter(uu, dx, dy, Nx, Ny)

\* params, as a call of the lambda leaves it
ParamsAfterCall ==
  IF pipeline = "heat" THEN ParamsAfter(params) ELSE params

\* one call of the right-hand side on (tt, uu): what the call leaves behind
Call(tt, uu) ==
  /\ t' = tt
  /\ arg' = uu
  /\ f_ext' = LET b == LambdaWave(tt, uu)
              IN  IF pipeline = "wave" /\ IsArray(b.u) /\ UnpackOk(Size(b.u.v), Nx, Ny)
                    THEN external_force(x, y, b.t, B, Nx, Ny)
                    ELSE <<>>
  /\ res' = rhs(tt, uu)
  /\ nfev' = nfev + 1
  /\ pc' = "called"
  /\ buf' = ArgAfter(uu)
  /\ params' = ParamsAfterCall
  /\ calls' = Append(calls, [t |-> tt, y |-> uu, r |-> rhs(tt, uu)])

\* t_span and t_eval of the running notebook
t0 == IF pipeline = "heat" THEN t0_heat ELSE t0_wave
tf == IF pipeline = "heat" THEN tf_heat ELSE tf_wave
t_eval == IF pipeline = "heat" THEN linspace(tf_heat, n_eval_heat) ELSE linspace(tf_wave, n_eval_wave)

\* before the driver cell runs, solve_ivp has been handed nothing
NoReq == [t_span |-> <<>>, t_eval |-> <<>>]
\* solve_ivp(fun, (0, tf), y0, t_eval=np.linspace(0, tf, n))
SolveIvpArgs == [t_span |-> <<t0, tf>>, t_eval |-> t_eval]

\* the requested times up to tt: the columns solve_ivp has emitted at time tt
Emitted(tt) == {k \in DOMAIN t_eval : RLe(t_eval[k], tt)}

\* the result object: unset until the driver cell assigns it
NoSol == [set |-> FALSE, success |-> FALSE, status |-> 0, rows |-> 0, cols |-> 0]
\* sol.y has one row per component of y0 and one column per emitted time
Sol(ok, st, yy, tt) ==
  [set |-> TRUE, success |-> ok, status |-> st, rows |-> Size(yy.v),
   cols |-> Cardinality(Emitted(tt))]

\* y1 (the first Nx*Ny entries of the state) is non-zero at a grid point of
\* the forcing window
DisplacedInWindow(uu) ==
  \E i \in IndX(x), j \in IndY(y) : uu.v[i * Ny + j] # 0

-----------------------------------------------------------------------------
(* Bounds and input sets *)

MaxN == 4          \* grids have at most MaxN points per axis

TimeVals == {Rat(0, 1), Rat(1, 1), Rat(3, 2), Rat(5, 2), Rat(4, 1), Rat(5, 1)}
LenXVals == {Rat(1, 1), Rat(5, 2), Rat(7, 2), Rat(6, 1), Rat(7, 1), Rat(9, 1)}
StepXVals == {Rat(5, 2), Rat(3, 1), Rat(7, 2)}
LenYVals == {Rat(1, 1), Rat(3, 2), Rat(3, 1), Rat(9, 2), Rat(9, 1), Rat(10, 1)}
StepYVals == {Rat(3, 2), Rat(5, 2), Rat(9, 2)}
BVals == {B_ref, 3}
ImpulseVals == {1, -2}

Ramp(n) == [k \in 0..(n - 1) |-> k + 1]
RampKink(n) == [k \in 0..(n - 1) |-> IF k % 2 = 0 THEN k + 1 ELSE 2 * k + 5]
Bumpy(n) == [k \in 0..(n - 1) |-> ((k * k) % 7) - 3]
Impulse(n, at, val) == [k \in 0..(n - 1) |-> IF k = at THEN val ELSE 0]

\* the state vectors tried on an (nx, ny) grid
WaveStates(nx, ny) ==
  LET n == 2 * nx * ny
  IN  {[d |-> 1, v |-> Zeros(n)], [d |-> 1, v |-> Ramp(n)], [d |-> 2, v |-> Bumpy(n)]}
        \cup {[d |-> 1, v |-> Impulse(n, at, val)] : at \in 0..(n - 1), val \in ImpulseVals}

-----------------------------------------------------------------------------
(* SpecFn: the wave right-hand side as a function, applied once to inputs  *)
(* drawn from the sets above                                                *)

GridInit(l1, l2, d1, d2) ==
  /\ lx = l1 /\ ly = l2 /\ dx = d1 /\ dy = d2
  /\ Nx = GridN(l1, d1)
  /\ Ny = GridN(l2, d2)
  /\ x = linspace(l1, GridN(l1, d1))
  /\ y = linspace(l2, GridN(l2, d2))

NoCallYet ==
  /\ t = Rat(0, 1)
  /\ arg = [d |-> 1, v |-> <<>>]
  /\ f_ext = <<>>
  /\ res = Raised("none")
  /\ K = <<>>
  /\ steps = 0
  /\ nfev = 0
  /\ pc = "idle"
  /\ buf = [d |-> 1, v |-> <<>>]
  /\ calls = <<>>
  /\ tn = Rat(0, 1)
  /\ err = "none"
  /\ sol = NoSol
  /\ shown = FALSE
  /\ disp = {}
  /\ winSteps = 0

NoParams == [c |-> Rat(1, 1), q |-> [d |-> 1, v |-> <<>>], x |-> <<>>, a |-> Rat(0, 1), Nx |-> 0]

WavePipeline == pipeline = "wave" /\ params = NoParams

InitFn ==
  /\ WavePipeline
  /\ \E l1 \in LenXVals, l2 \in LenYVals, d1 \in StepXVals, d2 \in StepYVals :
       /\ GridN(l1, d1) <= MaxN
       /\ GridN(l2, d2) <= MaxN
       /\ GridInit(l1, l2, d1, d2)
  /\ B \in BVals
  /\ u \in WaveStates(Nx, Ny)
  /\ NoCallYet
  /\ drv = "integrating"
  /\ req = SolveIvpArgs

\* the integrator evaluates the right-hand side on its state at some time
Evaluate(tt) ==
  /\ pc = "idle"
  /\ drv = "integrating"
  /\ Call(tt, u)
  /\ u' = ArgAfter(u)
  /\ UNCHANGED <<pipeline, lx, ly, dx, dy, Nx, Ny, x, y, B, K, steps>>
  /\ UNCHANGED <<tn, drv, err, sol, shown, req, disp, winSteps>>

NextFn == \E tt \in TimeVals : Evaluate(tt)

SpecFn == InitFn /\ [][NextFn]_vars

-----------------------------------------------------------------------------
(* SpecRef: the notebook's run.  The grid and the constants are the        *)
(* notebook's, the state starts as u_start = np.zeros((2*Nx*Ny,)), and the *)
(* integrator (solve_ivp, an explicit Runge-Kutta method) advances it:     *)
(* each step evaluates the right-hand side at the current state, possibly  *)
(* again at the state displaced along the derivative just obtained, and    *)
(* then adds a linear combination of the derivatives to the state.         *)

MaxEvals == 3      \* right-hand-side evaluations the integrator makes
DenCap == 10000    \* the right-hand side is evaluated on arrays whose common
                   \* denominator is at most DenCap (numerators stay in range)

RefTimeVals == {Rat(1, 1), Rat(2, 1), Rat(4, 1)}
StageCoefs  == {Rat(1, 2)}
StepSizes   == {Rat(1, 2), Rat(1, 1)}

InitRef ==
  /\ WavePipeline
  /\ GridInit(lx_ref, ly_ref, dx_ref, dy_ref)
  /\ B = B_ref
  /\ u = u_start(Nx, Ny)
  /\ NoCallYet
  /\ drv = "integrating"
  /\ req = SolveIvpArgs

AsArray(r) == [d |-> r.d, v |-> r.v]

\* An exception e raised by the lambda inside solve_ivp: solve_ivp has no
\* handler for it, so it leaves the driver cell unless the cell catches it;
\* a cell that caught it would go on with the result so far.
Escapes(e) ==
  IF e \in DriverCatches
    THEN /\ drv' = "returned"
         /\ err' = "none"
         /\ sol' = Sol(TRUE, 0, u, tn)
    ELSE /\ drv' = "raised"
         /\ err' = e
         /\ sol' = sol

\* a stage evaluation at (tt, uu) whose derivative joins K, or whose exception
\* ends the run
Stage(tt, uu) ==
  LET r == rhs(tt, uu)
  IN  /\ t' = tt
      /\ nfev' = nfev + 1
      /\ pc' = "called"
      /\ params' = ParamsAfterCall
      /\ IF r.status = "ok"
           THEN K' = Append(K, AsArray(r)) /\ UNCHANGED <<drv, err, sol>>
           ELSE K' = K /\ Escapes(r.status)

\* first stage of a step: the right-hand side at the current state
StageAtState(tt) ==
  /\ drv = "integrating"
  /\ u.d <= DenCap
  /\ K = <<>>
  /\ Stage(tt, u)
  /\ u' = ArgAfter(u)
  /\ UNCHANGED <<pipeline, lx, ly, dx, dy, Nx, Ny, x, y, B, arg, f_ext, res, steps>>
  /\ UNCHANGED <<buf, calls, tn, shown, req, disp, winSteps>>

FirstStage(tt) == nfev < MaxEvals /\ StageAtState(tt)

\* second stage: the right-hand side at u + al * K[1]
StageAtTrial(tt, al) ==
  /\ drv = "integrating"
  /\ Len(K) = 1
  /\ Lcm(u.d, K[1].d * al.d) <= DenCap
  /\ Stage(tt, VAxpy(u, al, K[1]))
  /\ UNCHANGED <<pipeline, lx, ly, dx, dy, Nx, Ny, x, y, B, u, arg, f_ext, res, steps>>
  /\ UNCHANGED <<buf, calls, tn, shown, req, disp, winSteps>>

SecondStage(tt, al) == nfev < MaxEvals /\ StageAtTrial(tt, al)

\* end of a step of size h: u + h * K[1] after one stage, u + h * K[2] after
\* two.  The new time is emitted when it is one of the requested times.
Advance(h) ==
  /\ drv = "integrating"
  /\ K # <<>>
  /\ u' = VAxpy(u, h, K[Len(K)])
  /\ K' = <<>>
  /\ steps' = steps + 1
  /\ tn' = RAdd(tn, h)
  /\ winSteps' = IF pipeline = "wave" /\ ForceTimeOpen(tn) THEN winSteps + 1 ELSE winSteps
  /\ disp' = IF /\ pipeline = "wave"
                /\ RLt(t_lo, tn')
                /\ \E k \in DOMAIN t_eval : REq(t_eval[k], tn')
                /\ DisplacedInWindow(u')
               THEN disp \cup {tn'}
               ELSE disp
  /\ UNCHANGED <<pipeline, params, lx, ly, dx, dy, Nx, Ny, x, y, B, t, arg, f_ext, res, nfev, pc>>
  /\ UNCHANGED <<buf, calls, drv, err, sol, shown, req>>

NextRef ==
  \/ \E tt \in RefTimeVals : FirstStage(tt)
  \/ \E tt \in RefTimeVals, al \in StageCoefs : SecondStage(tt, al)
  \/ \E h \in StepSizes : Advance(h)

SpecRef == InitRef /\ [][NextRef]_vars

-----------------------------------------------------------------------------
(* SpecHeat: the heat notebook.  The right-hand side is applied once to    *)
(* the initial temperature, and the integrator advances the temperature    *)
(* as in SpecRef.  The flux q is np.random.random((Nx,))*0.1: hundredths   *)
(* in 0 .. 9.                                                               *)

MaxHeatN == 3      \* besides the notebook's Nx = 10, Nx ranges over 1 .. MaxHeatN

HeatNs == (1..MaxHeatN) \cup {Nx_heat}
HeatAs == {Rat(0, 1), a_heat}

FluxRamp(n) == [k \in 0..(n - 1) |-> (3 * k + 1) % 10]
FluxBumpy(n) == [k \in 0..(n - 1) |-> (k * k) % 7]

HeatFluxes(n) ==
  {[d |-> 100, v |-> [k \in 0..(n - 1) |-> 5]],
   [d |-> 100, v |-> FluxRamp(n)],
   [d |-> 100, v |-> FluxBumpy(n)]}
    \cup {[d |-> 100, v |-> Impulse(n, at, 7)] : at \in 0..(n - 1)}

HeatStates(n) ==
  {[d |-> 1, v |-> Ramp(n)], [d |-> 2, v |-> Bumpy(n)]}
    \cup (IF n = Size(T_init.v) THEN {T_init} ELSE {})

NoGrid ==
  /\ lx = Rat(0, 1) /\ ly = Rat(0, 1) /\ dx = Rat(1, 1) /\ dy = Rat(1, 1)
  /\ Nx = 0 /\ Ny = 0 /\ x = <<>> /\ y = <<>> /\ B = 0

InitHeat ==
  /\ pipeline = "heat"
  /\ \E n \in HeatNs, qq \in UNION {HeatFluxes(m) : m \in HeatNs}, aa \in HeatAs :
       /\ Size(qq.v) = n
       /\ params = Params(c_heat, qq, aa, n)
       /\ u \in HeatStates(n)
  /\ NoGrid
  /\ NoCallYet
  /\ drv = "integrating"
  /\ req = SolveIvpArgs

NextHeat ==
  \/ \E tt \in RefTimeVals : Evaluate(tt)
  \/ NextRef

SpecHeat == InitHeat /\ [][NextHeat]_vars

-----------------------------------------------------------------------------
(* SpecCalls: the right-hand side of either notebook called any number of  *)
(* times, in any order, on arrays of the configured length and of others   *)

MaxCalls == 3      \* calls made in one behaviour

CallTimes == {Rat(0, 1), Rat(2, 1)}

\* lx, dx, ly, dy of the grids tried: 3 x 3, 2 x 3 and 1 x 1 points
CallGrids ==
  {<<Rat(6, 1), Rat(3, 1), Rat(3, 1), Rat(3, 2)>>,
   <<Rat(7, 2), Rat(3, 1), Rat(3, 1), Rat(3, 2)>>,
   <<Rat(1, 1), Rat(5, 2), Rat(1, 1), Rat(3, 2)>>}

\* the arrays handed to the right-hand side when n entries are expected
CallStates(n) ==
  {[d |-> 1, v |-> Ramp(n)], [d |-> 2, v |-> Bumpy(n)], [d |-> 1, v |-> RampKink(n)],
   [d |-> 1, v |-> Ramp(1)], [d |-> 1, v |-> Ramp(n + 1)]}
    \cup (IF n % 2 = 0 /\ n > 2 THEN {[d |-> 1, v |-> Ramp(n \div 2)]} ELSE {})

\* the length the configuration expects of a state vector
ExpectedLen == IF pipeline = "heat" THEN params.Nx ELSE 2 * Nx * Ny

InitCalls ==
  /\ \/ /\ WavePipeline
        /\ \E g \in CallGrids : GridInit(g[1], g[3], g[2], g[4])
        /\ B = B_ref
        /\ u = u_start(Nx, Ny)
     \/ /\ pipeline = "heat"
        /\ \E n \in HeatNs :
             /\ params = Params(c_heat, [d |-> 100, v |-> FluxRamp(n)], a_heat, n)
             /\ u = [d |-> 1, v |-> Ramp(n)]
        /\ NoGrid
  /\ NoCallYet
  /\ drv = "integrating"
  /\ req = SolveIvpArgs

\* a call of the lambda on an array yy at time tt
CallOn(tt, yy) ==
  /\ drv = "integrating"
  /\ nfev < MaxCalls
  /\ Call(tt, yy)
  /\ UNCHANGED <<pipeline, lx, ly, dx, dy, Nx, Ny, x, y, B, u, K, steps>>
  /\ UNCHANGED <<tn, drv, err, sol, shown, req, disp, winSteps>>

NextCalls == \E tt \in CallTimes, yy \in CallStates(ExpectedLen) : CallOn(tt, yy)

SpecCalls == InitCalls /\ [][NextCalls]_vars

-----------------------------------------------------------------------------
(* SpecDrv: either notebook run from its configuration cells on.  The wave *)
(* notebook builds the grid from lx, dx, ly, dy, sets u_start and calls    *)
(* solve_ivp over (0, 100); the heat notebook builds params and T_init and *)
(* calls solve_ivp over (0, 50).  The integrator starts at t0, evaluates   *)
(* each stage at a time inside the current step, never steps past tf, and  *)
(* returns when it reaches tf or when a step fails (status -1).  The cells *)
(* after the driver cell plot sol.y.  The configurations tried include     *)
(* non-positive lengths and steps and arrays whose length is not Nx.       *)

\* (length, step) of one axis: the notebook's, three small grids, and
\* lengths and steps that are zero or negative
DrvAxes ==
  {<<lx_ref, dx_ref>>,
   <<Rat(6, 1), Rat(3, 1)>>, <<Rat(7, 1), Rat(3, 1)>>, <<Rat(1, 1), Rat(5, 2)>>,
   <<Rat(10, 1), Rat(0, 1)>>, <<Rat(10, 1), Rat(-5, 2)>>,
   <<Rat(0, 1), Rat(1, 4)>>, <<Rat(-1, 1), Rat(5, 2)>>}

\* (Nx, length of q, length of T_init): the notebook's (10, 10, 10) and
\* setups whose q or T_init has another length
HeatSetups ==
  {<<Nx_heat, Nx_heat, Nx_heat>>, <<Nx_heat, Nx_heat - 1, Nx_heat>>,
   <<Nx_heat, 2, Nx_heat>>, <<Nx_heat, Nx_heat, Nx_heat - 1>>}
    \cup UNION {{<<n, n, n>>, <<n, n - 1, n>>, <<n, n, n - 1>>} : n \in 3..MaxHeatN}

\* the initial temperature of n cells: the notebook's T_init for n = 10
HeatStart(n) == IF n = Size(T_init.v) THEN T_init ELSE [d |-> 1, v |-> Ramp(n)]

InitDrv ==
  /\ \/ /\ WavePipeline
        /\ \E ax \in DrvAxes, ay \in DrvAxes :
             /\ (ax[1] = lx_ref /\ ax[2] = dx_ref) <=> (ay[1] = ly_ref /\ ay[2] = dy_ref)
             /\ lx = ax[1] /\ dx = ax[2] /\ ly = ay[1] /\ dy = ay[2]
        /\ Nx = 0 /\ Ny = 0 /\ x = <<>> /\ y = <<>>
        /\ B = B_ref
        /\ u = [d |-> 1, v |-> <<>>]
     \/ /\ pipeline = "heat"
        /\ \E hs \in HeatSetups :
             /\ params = Params(c_heat, [d |-> 100, v |-> FluxRamp(hs[2])], a_heat, hs[1])
             /\ u = HeatStart(hs[3])
        /\ NoGrid
  /\ NoCallYet
  /\ drv = "config"
  /\ req = NoReq

\* The cells before the driver cell.  Wave: Nx = int(lx/dx) + 1 and
\* Ny = int(ly/dy) + 1 raise ZeroDivisionError for a zero step, np.linspace
\* raises ValueError for a negative number of points, and nothing else is
\* checked.  Heat: the params and T_init cells check nothing.
SetupCells ==
  /\ drv = "config"
  /\ IF pipeline = "heat"
       THEN /\ drv' = "ready" /\ err' = err
            /\ UNCHANGED <<Nx, Ny, x, y>>
       ELSE IF dx.n = 0 \/ dy.n = 0
         THEN /\ drv' = "raised" /\ err' = "ZeroDivisionError"
              /\ UNCHANGED <<Nx, Ny, x, y>>
         ELSE /\ Nx' = GridN(lx, dx)
              /\ Ny' = GridN(ly, dy)
              /\ IF GridN(lx, dx) < 0
                   THEN /\ drv' = "raised" /\ err' = "ValueError"
                        /\ UNCHANGED <<x, y>>
                   ELSE /\ x' = linspace(lx, GridN(lx, dx))
                        /\ IF GridN(ly, dy) < 0
                             THEN /\ drv' = "raised" /\ err' = "ValueError"
                                  /\ y' = y
                             ELSE /\ y' = linspace(ly, GridN(ly, dy))
                                  /\ drv' = "ready" /\ err' = err
  /\ UNCHANGED <<pipeline, params, lx, ly, dx, dy, B, u, t, arg, f_ext, res, K, steps, nfev, pc>>
  /\ UNCHANGED <<buf, calls, tn, sol, shown, req, disp, winSteps>>

\* the driver cell up to the call: u_start = np.zeros((2*Nx*Ny,)) in the wave
\* notebook, T_init in the heat notebook; solve_ivp starts at t0
CallSolveIvp ==
  /\ drv = "ready"
  /\ u' = IF pipeline = "heat" THEN u ELSE u_start(Nx, Ny)
  /\ tn' = t0
  /\ drv' = "integrating"
  /\ UNCHANGED <<pipeline, params, lx, ly, dx, dy, Nx, Ny, x, y, B, t, arg, f_ext, res, K, steps,
                 nfev, pc>>
  /\ req' = SolveIvpArgs
  /\ UNCHANGED <<buf, calls, err, sol, shown, disp, winSteps>>

\* the stages of a step are evaluated at the step's start and inside it
DrvFirstStage == FirstStage(tn)
DrvSecondStage(al) == RLe(RAdd(tn, al), tf) /\ SecondStage(RAdd(tn, al), al)

\* a step ends at or after its latest stage time and never past tf; the
\* step that ends exactly at tf is always possible
DrvAdvance(h) ==
  /\ h.n > 0
  /\ RLe(t, RAdd(tn, h))
  /\ RLe(RAdd(tn, h), tf)
  /\ Advance(h)

\* solve_ivp reached tf: status 0, success True
Finish ==
  /\ drv = "integrating"
  /\ K = <<>>
  /\ REq(tn, tf)
  /\ sol' = Sol(TRUE, 0, u, tn)
  /\ drv' = "returned"
  /\ UNCHANGED <<pipeline, params, waveVars>>
  /\ UNCHANGED <<buf, calls, tn, err, shown, req, disp, winSteps>>

\* a step of the integrator failed (the step size fell below the spacing of
\* floating-point numbers): solve_ivp returns status -1, success False, with
\* the columns emitted so far.  The driver cell assigns the result and ends.
GiveUp ==
  /\ drv = "integrating"
  /\ K = <<>>
  /\ nfev > 0
  /\ RLt(tn, tf)
  /\ sol' = Sol(FALSE, -1, u, tn)
  /\ drv' = "returned"
  /\ UNCHANGED <<pipeline, params, waveVars>>
  /\ UNCHANGED <<buf, calls, tn, err, shown, req, disp, winSteps>>

\* the cell after the driver cell: plot_solution reads sol.y and sol.t
PlotCell ==
  /\ drv = "returned"
  /\ ~shown
  /\ shown' = TRUE
  /\ UNCHANGED <<pipeline, params, waveVars>>
  /\ UNCHANGED <<buf, calls, tn, drv, err, sol, req, disp, winSteps>>

NextDrv ==
  \/ SetupCells
  \/ CallSolveIvp
  \/ DrvFirstStage
  \/ \E al \in StageCoefs : DrvSecondStage(al)
  \/ \E h \in StepSizes \cup {RSub(tf, tn)} : DrvAdvance(h)
  \/ Finish
  \/ GiveUp
  \/ PlotCell

SpecDrv == InitDrv /\ [][NextDrv]_vars

-----------------------------------------------------------------------------
(* SpecRun: the wave notebook's run followed from t = 0 through the        *)
(* forcing interval.  solve_ivp is called without a method, and its        *)
(* methods all evaluate the right-hand side more than once per step: here  *)
(* every step has its two stages, the first at the step's start and the    *)
(* second inside the step, before the state advances.  A requested time    *)
(* is sampled when a step ends on it.                                       *)

MaxRunEvals == 4   \* right-hand-side evaluations of the run (two steps)

RunStageIncs  == {Rat(1, 2), Rat(1, 1)}
RunStepSizes  == {Rat(1, 2), Rat(1, 1), Rat(3, 2), Rat(2, 1), Rat(5, 2), Rat(3, 1), Rat(4, 1)}

InitRun == InitRef

RunFirstStage == nfev < MaxRunEvals /\ StageAtState(tn)

RunSecondStage(al) ==
  /\ nfev < MaxRunEvals
  /\ RLe(RAdd(tn, al), tf)
  /\ StageAtTrial(RAdd(tn, al), al)

RunAdvance(h) ==
  /\ Len(K) = 2
  /\ h.n > 0
  /\ RLe(t, RAdd(tn, h))
  /\ RLe(RAdd(tn, h), tf)
  /\ Advance(h)

NextRun ==
  \/ RunFirstStage
  \/ \E al \in RunStageIncs : RunSecondStage(al)
  \/ \E h \in RunStepSizes : RunAdvance(h)

SpecRun == InitRun /\ [][NextRun]_vars

-----------------------------------------------------------------------------
(* SpecForce: the right-hand side of the wave notebook called once on the  *)
(* notebook's 41 x 41 grid, at a time before, inside or after the forcing  *)
(* interval, so that the field external_force builds on that grid is       *)
(* recorded.                                                                *)

MaxForceTick == 56   \* call times are 0, 1/8, 2/8, ... MaxForceTick/8

ForceTimes == {Rat(k, 8) : k \in 0..MaxForceTick}

InitForce ==
  /\ WavePipeline
  /\ GridInit(lx_ref, ly_ref, dx_ref, dy_ref)
  /\ B \in BVals
  /\ u = u_start(Nx, Ny)
  /\ NoCallYet
  /\ drv = "integrating"
  /\ req = SolveIvpArgs

NextForce == \E tt \in ForceTimes : Evaluate(tt)

SpecForce == InitForce /\ [][NextForce]_vars

-----------------------------------------------------------------------------
(* Properties of the wave right-hand side (SpecFn) *)

Cells    == (0..(Nx - 1)) \X (0..(Ny - 1))
Interior == {ij \in Cells : 1 <= ij[1] /\ ij[1] <= Nx - 2 /\ 1 <= ij[2] /\ ij[2] <= Ny - 2}
Boundary == Cells \ Interior

Returned == pc = "called" /\ res.status = "ok"

\* entry (i, j) of the two blocks of the returned derivative, as rationals
ResDy1(i, j) == Rat(res.v[i * Ny + j], res.d)
ResDy2(i, j) == Rat(res.v[Nx * Ny + i * Ny + j], res.d)
\* entry (i, j) of the two fields of the argument, as rationals
ArgY1(i, j) == Rat(arg.v[i * Ny + j], arg.d)
ArgY2(i, j) == Rat(arg.v[Nx * Ny + i * Ny + j], arg.d)

\* C1: packing two (Nx, Ny) fields into concat(flatten(y1), flatten(y2)) and
\* splitting at Nx*Ny with a reshape to (Nx, Ny) gives the two fields back,
\* shapes included; displacement cell (i, j) is flat index i*Ny + j and
\* velocity cell (i, j) is flat index Nx*Ny + i*Ny + j, both where odefun
\* unpacks its argument and where it packs its result.
C1_PackUnpackRoundTrip ==
  LET F1 == [i \in 0..(Nx - 1) |-> [j \in 0..(Ny - 1) |-> u.v[i * Ny + j]]]
      F2 == [i \in 0..(Nx - 1) |-> [j \in 0..(Ny - 1) |-> u.v[Nx * Ny + i * Ny + j]]]
      P  == pack(F1, F2, Nx, Ny)
  IN  /\ DOMAIN P = 0..(2 * Nx * Ny - 1)
      /\ \A ij \in Cells :
           /\ P[ij[1] * Ny + ij[2]] = F1[ij[1]][ij[2]]
           /\ P[Nx * Ny + ij[1] * Ny + ij[2]] = F2[ij[1]][ij[2]]
      /\ unpack_y1(P, Nx, Ny) = F1
      /\ unpack_y2(P, Nx, Ny) = F2
      /\ unpack_y1(u.v, Nx, Ny) = F1
      /\ unpack_y2(u.v, Nx, Ny) = F2
      /\ Returned =>
           /\ DOMAIN res.v = 0..(2 * Nx * Ny - 1)
           /\ \A ij \in Cells : REq(ResDy1(ij[1], ij[2]), ArgY2(ij[1], ij[2]))

C1_Witness ==
  /\ Returned
  /\ Nx >= 2 /\ Ny >= 2 /\ Nx # Ny
  /\ arg.v = Ramp(2 * Nx * Ny)

\* the claim's window, written with its own literals
InTimeWindow(tt)  == RLt(Rat(1, 1), tt) /\ RLt(tt, Rat(4, 1))
InXWindow(xv)     == RLe(Rat(5, 2), xv) /\ RLe(xv, Rat(7, 2))
InYWindow(yv)     == RLe(Rat(3, 2), yv) /\ RLe(yv, Rat(9, 2))

\* C2: external_force returns an (Nx, Ny) field whose entry (ix, iy) is B when
\* 1 < t < 4 and 2.5 <= x[ix] <= 3.5 and 1.5 <= y[iy] <= 4.5, and 0 otherwise.
C2_SourceWindow ==
  Returned =>
    /\ DOMAIN f_ext = 0..(Nx - 1)
    /\ \A i \in 0..(Nx - 1) : DOMAIN f_ext[i] = 0..(Ny - 1)
    /\ \A ij \in Cells :
         f_ext[ij[1]][ij[2]] =
           IF InTimeWindow(t) /\ InXWindow(x[ij[1]]) /\ InYWindow(y[ij[2]]) THEN B ELSE 0

C2_Witness ==
  /\ Returned
  /\ \E ij \in Cells : f_ext[ij[1]][ij[2]] = B /\ REq(x[ij[1]], Rat(5, 2))
  /\ \E ij \in Cells : f_ext[ij[1]][ij[2]] = 0 /\ InYWindow(y[ij[2]])

\* a grid point on a spatial edge of the window, the other coordinate inside
OnWindowEdge(i, j) ==
  \/ (REq(x[i], Rat(5, 2)) \/ REq(x[i], Rat(7, 2))) /\ InYWindow(y[j])
  \/ (REq(y[j], Rat(3, 2)) \/ REq(y[j], Rat(9, 2))) /\ InXWindow(x[i])

\* C3: at t = 1 and at t = 4 the force is zero everywhere; for 1 < t < 4 a
\* grid point exactly on a spatial edge of the window receives B.
C3_InclusiveSpaceExclusiveTime ==
  Returned =>
    /\ (REq(t, Rat(1, 1)) \/ REq(t, Rat(4, 1))) =>
         \A ij \in Cells : f_ext[ij[1]][ij[2]] = 0
    /\ InTimeWindow(t) =>
         \A ij \in Cells : OnWindowEdge(ij[1], ij[2]) => f_ext[ij[1]][ij[2]] = B

C3_Witness ==
  /\ Returned
  /\ REq(t, Rat(4, 1))
  /\ \E ij \in Cells : OnWindowEdge(ij[1], ij[2]) /\ f_ext[ij[1]][ij[2]] = 0

\* C5 as stated: every boundary entry of the returned dy2/dt block is 0, for
\* every t and every state.
C5_BoundaryDy2Zero ==
  Returned => \A ij \in Boundary : ResDy2(ij[1], ij[2]).n = 0

\* C5 amended: every boundary entry of the returned dy2/dt block is
\* -a*y2[i,j] + f_ext[i,j]: the stencil leaves the zero buffer alone there,
\* the damping and the force are added at every cell.
C5_BoundaryDy2DampedForced ==
  Returned =>
    \A ij \in Boundary :
      REq(ResDy2(ij[1], ij[2]),
          RAdd(RNeg(RMul(Rat(1, 10), ArgY2(ij[1], ij[2]))), RInt(f_ext[ij[1]][ij[2]])))

C5_Witness ==
  /\ Returned
  /\ Nx >= 3 /\ Ny >= 3
  /\ \E ij \in Boundary : ArgY2(ij[1], ij[2]).n # 0 /\ ResDy2(ij[1], ij[2]).n # 0
  /\ \E ij \in Boundary : f_ext[ij[1]][ij[2]] # 0

\* the second difference (p - 2q + r) / h**2
SecondDifference(p, q, r, h) ==
  RDiv(RAdd(RSub(p, RMul(RInt(2), q)), r), RMul(h, h))

\* C6: dy1/dt = y2 at every cell, and at every interior cell
\* dy2/dt[i,j] = c^2*((y1[i+1,j] - 2*y1[i,j] + y1[i-1,j])/dx^2
\*                  + (y1[i,j+1] - 2*y1[i,j] + y1[i,j-1])/dy^2)
\*               - a*y2[i,j] + f_ext[i,j](t).
C6_WaveRightHandSide ==
  Returned =>
    /\ \A ij \in Cells : REq(ResDy1(ij[1], ij[2]), ArgY2(ij[1], ij[2]))
    /\ \A ij \in Interior :
         LET i == ij[1]
             j == ij[2]
             lap == RAdd(SecondDifference(ArgY1(i + 1, j), ArgY1(i, j), ArgY1(i - 1, j), dx),
                         SecondDifference(ArgY1(i, j + 1), ArgY1(i, j), ArgY1(i, j - 1), dy))
         IN  REq(ResDy2(i, j),
                 RAdd(RSub(RMul(Rat(1, 4), lap), RMul(Rat(1, 10), ArgY2(i, j))),
                      RInt(external_force(x, y, t, B, Nx, Ny)[i][j])))

C6_Witness ==
  /\ Returned
  /\ InTimeWindow(t)
  /\ arg = [d |-> 2, v |-> Bumpy(2 * Nx * Ny)]
  /\ \E ij \in Interior :
       /\ f_ext[ij[1]][ij[2]] # 0
       /\ ArgY2(ij[1], ij[2]).n # 0
       /\ Laplacian(unpack_y1(arg.v, Nx, Ny), dx, dy, Nx, Ny)[ij[1]][ij[2]] # 0
       /\ ~REq(ResDy2(ij[1], ij[2]), ArgY2(ij[1], ij[2]))

\* C7: on every grid, degenerate ones included, the stencil assignment reads
\* only cells inside the array, writes only interior cells, raises nothing,
\* and leaves every boundary cell of the buffer at 0.
C7_LaplacianInteriorOnly ==
  /\ StencilShapesOk(Nx, Ny)
  /\ StencilReads(Nx, Ny) \subseteq Cells
  /\ StencilWrites(Nx, Ny) \subseteq Interior
  /\ pc = "called" =>
       /\ res.status = "ok"
       /\ \A ij \in Boundary :
            Laplacian(unpack_y1(arg.v, Nx, Ny), dx, dy, Nx, Ny)[ij[1]][ij[2]] = 0

C7_Witness ==
  /\ Returned
  /\ Nx >= 3 /\ Ny >= 3
  /\ \E ij \in Boundary : arg.v[ij[1] * Ny + ij[2]] # 0
  /\ \E ij \in Interior :
       Laplacian(unpack_y1(arg.v, Nx, Ny), dx, dy, Nx, Ny)[ij[1]][ij[2]] # 0

\* a degenerate grid (no interior cell) on which the call returned
C7_DegenerateReached == Returned /\ (Nx < 3 \/ Ny < 3) /\ arg.v = Ramp(2 * Nx * Ny)

-----------------------------------------------------------------------------
(* Properties of the notebook's wave run (SpecRef) *)

\* C4: in the reference configuration, started from the zero state, every
\* first/last-row and first/last-column entry of the displacement y1 and of
\* the velocity y2 is exactly 0 after any sequence of steps that add linear
\* combinations of right-hand-side evaluations (at any times) to the state.
C4_DirichletBoundaryStaysZero ==
  /\ Nx = 41 /\ Ny = 41
  /\ \A ij \in Boundary :
       /\ u.v[ij[1] * Ny + ij[2]] = 0
       /\ u.v[Nx * Ny + ij[1] * Ny + ij[2]] = 0

C4_Witness ==
  /\ steps >= 2
  /\ \E ij \in Interior : u.v[ij[1] * Ny + ij[2]] # 0
  /\ \E ij \in Interior : u.v[Nx * Ny + ij[1] * Ny + ij[2]] # 0

-----------------------------------------------------------------------------
(* Properties of the heat right-hand side and run (SpecHeat) *)

RECURSIVE SumTo(_, _)
\* v[0] + ... + v[n-1]
SumTo(v, n) == IF n = 0 THEN 0 ELSE SumTo(v, n - 1) + v[n - 1]

\* the sum of the entries of an array, as a rational
Total(p) == Rat(SumTo(p.v, Size(p.v)), p.d)

HeatQ(i) == Rat(params.q.v[i], params.q.d)

\* C8: for a flux array of length Nx >= 2, dq[0] = q[1] - q[0],
\* dq[Nx-1] = -(q[Nx-1] - q[Nx-2]), and
\* dq[i] = (q[i+1] - q[i]) - (q[i] - q[i-1]) for 1 <= i <= Nx-2.
C8_FluxDivergenceBoundary ==
  (pipeline = "heat" /\ params.Nx >= 2) =>
    LET n  == params.Nx
        dq == Dq(Rats(params.q), n)
    IN  /\ DOMAIN dq = 0..(n - 1)
        /\ REq(dq[0], RSub(HeatQ(1), HeatQ(0)))
        /\ REq(dq[n - 1], RNeg(RSub(HeatQ(n - 1), HeatQ(n - 2))))
        /\ \A i \in 1..(n - 2) :
             REq(dq[i], RSub(RSub(HeatQ(i + 1), HeatQ(i)), RSub(HeatQ(i), HeatQ(i - 1))))

C8_Witness ==
  /\ pipeline = "heat" /\ Returned
  /\ params.Nx = Nx_heat
  /\ params.q.v = FluxBumpy(Nx_heat)
  /\ Dq(Rats(params.q), params.Nx)[0].n # 0
  /\ Dq(Rats(params.q), params.Nx)[params.Nx - 1].n # 0

\* the net flux of cell i as the sum of its left part, -(q[i] - q[i-1]) for
\* i >= 1 (else 0), and its right part, q[i+1] - q[i] for i < Nx-1 (else 0)
NetFlux(i) ==
  RAdd(IF i >= 1 THEN RNeg(RSub(HeatQ(i), HeatQ(i - 1))) ELSE Rat(0, 1),
       IF i < params.Nx - 1 THEN RSub(HeatQ(i + 1), HeatQ(i)) ELSE Rat(0, 1))

\* C9: the heat odefun returns dTdt[i] = -(1/c) * (dq[i]/(x[i+1] - x[i]) - a*y[i])
\* at every cell i.
C9_HeatRightHandSide ==
  (pipeline = "heat" /\ Returned) =>
    /\ DOMAIN res.v = 0..(params.Nx - 1)
    /\ \A i \in 0..(params.Nx - 1) :
         REq(Rat(res.v[i], res.d),
             RNeg(RMul(RDiv(Rat(1, 1), params.c),
                       RSub(RDiv(NetFlux(i), RSub(params.x[i + 1], params.x[i])),
                            RMul(params.a, Rat(arg.v[i], arg.d))))))

C9_Witness ==
  /\ pipeline = "heat" /\ Returned
  /\ params.a = a_heat
  /\ params.q.v = FluxRamp(Nx_heat)
  /\ arg = T_init
  /\ \A i \in 0..(params.Nx - 1) : res.v[i] # 0

\* what C10 says of a state: with a = 0 every derivative vector the
\* right-hand side returned sums to zero
DerivativesSumToZero ==
  /\ Returned => SumTo(res.v, Size(res.v)) = 0
  /\ \A j \in DOMAIN K : SumTo(K[j].v, Size(K[j].v)) = 0

\* C10: with a = 0 the entries of every returned dT/dt sum to zero, and no
\* step of the integrator changes the sum of T over the cells.
C10_HeatConservation ==
  [][(pipeline = "heat" /\ params.a.n = 0) =>
       (DerivativesSumToZero' /\ REq(Total(u'), Total(u)))]_vars

C10_Witness ==
  /\ pipeline = "heat"
  /\ params.a.n = 0
  /\ params.Nx = Nx_heat
  /\ steps >= 2
  /\ REq(Total(u), Total(T_init))
  /\ \E k \in DOMAIN u.v : ~REq(At(u, k), At(T_init, k))

-----------------------------------------------------------------------------
(* Properties of repeated calls (SpecCalls) *)

\* two arrays hold the same values
SameArray(p, q) ==
  /\ DOMAIN p.v = DOMAIN q.v
  /\ \A k \in DOMAIN p.v : REq(At(p, k), At(q, k))

\* calls with the same time and the same argument had the same outcome
SameInSameOut(cs) ==
  \A i, j \in DOMAIN cs :
    (cs[i].t = cs[j].t /\ cs[i].y = cs[j].y) => cs[i].r = cs[j].r

\* C11: in both pipelines, every call of the right-hand side leaves the array
\* it was handed, the grid vectors x and y, the force magnitude and params
\* (flux q, coefficients) as they were, and calls with the same (t, y) return
\* the same derivative whatever calls came between them.
C11_Purity ==
  [][(nfev' = nfev + 1) =>
       /\ SameArray(buf', arg')
       /\ params' = params
       /\ x' = x /\ y' = y /\ B' = B /\ dx' = dx /\ dy' = dy /\ Nx' = Nx /\ Ny' = Ny
       /\ SameInSameOut(calls')]_vars

C11_Witness ==
  /\ Len(calls) = 3
  /\ calls[1].t = calls[3].t /\ calls[1].y = calls[3].y
  /\ calls[2].t # calls[1].t /\ calls[2].y # calls[1].y
  /\ calls[1].r.status = "ok" /\ calls[2].r.status = "ok"
  /\ \E k \in DOMAIN calls[1].r.v : calls[1].r.v[k] # 0
  /\ pipeline = "wave" /\ Nx >= 3 /\ Ny >= 3
  /\ \E k \in (Nx * Ny)..(2 * Nx * Ny - 1) : ~REq(At(AsArray(res), k), At(arg, k))

\* C12 as stated: whenever the right-hand side returns, the derivative has
\* the length of the state vector it was handed.
C12_LengthPreserved ==
  (pc = "called" /\ res.status = "ok") => Size(res.v) = Size(arg.v)

\* C13 as stated: a state vector whose length is not the expected packed
\* size (2*Nx*Ny, Nx) ends the call in an error, never in a derivative.
C13_LengthMismatchRaises ==
  (pc = "called" /\ Size(arg.v) # ExpectedLen) => res.status # "ok"

-----------------------------------------------------------------------------
(* Properties of the notebooks' runs from their configuration (SpecDrv) *)

\* C14 as stated: whenever solve_ivp returns a result whose success is False,
\* the driver ends in IntegrationError and the plotting cell never reads
\* the trajectory.
C14_NonSuccessRaises ==
  (sol.set /\ ~sol.success) => (drv = "raised" /\ err = "IntegrationError" /\ ~shown)

\* C15: when the right-hand side raises on a call the integrator makes, the
\* driver cell ends in that same exception, no result is assigned (no empty
\* or partial trajectory), and nothing is evaluated afterwards.
C15_FailurePropagation ==
  [][/\ (drv = "integrating" /\ nfev' = nfev + 1 /\ rhs(t', u).status # "ok") =>
          (drv' = "raised" /\ err' = rhs(t', u).status /\ K' = K)
     /\ drv' = "raised" => (sol' = NoSol /\ ~shown')
     /\ drv = "raised" => (nfev' = nfev /\ drv' = drv /\ err' = err)]_vars

C15_Witness ==
  /\ pipeline = "heat"
  /\ drv = "raised"
  /\ err = "ValueError"
  /\ nfev = 1
  /\ params.Nx = Nx_heat
  /\ Size(params.q.v) = Nx_heat - 1

\* r is positive
RPos(r) == r.n > 0 /\ r.d > 0

\* floor(l/d) for positive l and d, found by search: the k with
\* k*d <= l < (k+1)*d
FloorQuot(l, d) ==
  CHOOSE k \in 0..(l.n * d.d) : RLe(RMul(RInt(k), d), l) /\ RLt(l, RMul(RInt(k + 1), d))

\* g has floor(l/d) + 1 coordinates, strictly increasing, the first of them 0
GridCountOrder(g, l, d) ==
  /\ DOMAIN g = 0..FloorQuot(l, d)
  /\ \A i \in DOMAIN g : (i + 1 \in DOMAIN g) => RLt(g[i], g[i + 1])
  /\ REq(g[0], Rat(0, 1))

\* the grids are built: the grid cell ran and raised nothing
GridsBuilt == pipeline = "wave" /\ drv \in {"ready", "integrating", "returned"}

\* C16 as stated: for l > 0 and d > 0 the grid has floor(l/d) + 1
\* coordinates, strictly increasing, the first 0 and the last exactly l.
C16_GridBuilder ==
  GridsBuilt =>
    /\ (RPos(lx) /\ RPos(dx)) =>
         (GridCountOrder(x, lx, dx) /\ REq(x[FloorQuot(lx, dx)], lx))
    /\ (RPos(ly) /\ RPos(dy)) =>
         (GridCountOrder(y, ly, dy) /\ REq(y[FloorQuot(ly, dy)], ly))

\* the last coordinate of g is l when the grid has two or more coordinates;
\* a grid of one coordinate (l < d) is the single point 0
GridLast(g, l, d) ==
  IF FloorQuot(l, d) >= 1 THEN REq(g[FloorQuot(l, d)], l) ELSE RLt(l, d)

\* C16 amended: for l > 0 and d > 0 the grid has floor(l/d) + 1 coordinates,
\* strictly increasing, the first 0; the last is exactly l when l >= d, and
\* for l < d the grid is the single coordinate 0.
C16_GridBuilderFromStep ==
  GridsBuilt =>
    /\ (RPos(lx) /\ RPos(dx)) => (GridCountOrder(x, lx, dx) /\ GridLast(x, lx, dx))
    /\ (RPos(ly) /\ RPos(dy)) => (GridCountOrder(y, ly, dy) /\ GridLast(y, ly, dy))

C16_Witness ==
  /\ GridsBuilt
  /\ lx = Rat(7, 1) /\ dx = Rat(3, 1)
  /\ Size(x) = 3 /\ REq(x[1], Rat(7, 2)) /\ REq(x[2], Rat(7, 1))
  /\ ly = Rat(1, 1) /\ dy = Rat(5, 2)
  /\ Size(y) = 1

\* C17 as stated: a grid cell run with a step <= 0 or a length <= 0 ends in
\* an error and produces no grid.
C17_NonPositiveRaises ==
  (pipeline = "wave" /\ drv # "config"
     /\ (lx.n <= 0 \/ dx.n <= 0 \/ ly.n <= 0 \/ dy.n <= 0)) =>
    (drv = "raised" /\ x = <<>> /\ y = <<>>)

\* a setup with a non-positive spacing, or a flux array or initial state
\* whose length is not Nx
InvalidSetup ==
  IF pipeline = "heat"
    THEN Size(params.q.v) # params.Nx \/ Size(u.v) # params.Nx
    ELSE dx.n <= 0 \/ dy.n <= 0

\* C18 as stated: an invalid setup is detected when it is constructed: the
\* notebook never gets past its configuration cells, solve_ivp is not
\* invoked and the right-hand side is never evaluated.
C18_SetupErrorsFirst ==
  InvalidSetup => (drv \in {"config", "ready", "raised"} /\ nfev = 0)

\* C19: with lx = ly = 10 and dx = dy = 0.25 the grid cell gives
\* Nx = Ny = 41, solve_ivp starts from an all-zero state of 3362 entries with
\* 101 requested times, and a successful result has sol.y of shape (3362, 101).
C19_WaveDimensions ==
  (pipeline = "wave" /\ lx = Rat(10, 1) /\ ly = Rat(10, 1)
     /\ dx = Rat(1, 4) /\ dy = Rat(1, 4) /\ drv # "config") =>
    /\ drv # "raised"
    /\ Nx = 41 /\ Ny = 41
    /\ Size(t_eval) = 101
    /\ (drv = "integrating" /\ nfev = 0) =>
         (DOMAIN u.v = 0..3361 /\ \A k \in DOMAIN u.v : u.v[k] = 0)
    /\ (sol.set /\ sol.success) => (sol.rows = 3362 /\ sol.cols = 101)

C19_Witness ==
  /\ pipeline = "wave"
  /\ Nx = 41
  /\ sol.set /\ sol.success
  /\ steps >= 2
  /\ shown

-----------------------------------------------------------------------------
(* Properties of the forced run (SpecRun) *)

\* the current time is one of the requested times
AtSampledTime == \E k \in DOMAIN t_eval : REq(t_eval[k], tn)

\* C20: in the notebook's wave scenario started from the zero state, once a
\* step begun at a time strictly inside (1, 4) has been completed and the
\* integration stands at a requested time, some requested time t > 1 has been
\* sampled with y1 non-zero at a grid point of the forcing window.
C20_ForcingDisplaces ==
  (pipeline = "wave" /\ winSteps >= 1 /\ AtSampledTime) => disp # {}

C20_Witness ==
  /\ pipeline = "wave"
  /\ Nx = 41 /\ Ny = 41
  /\ winSteps >= 1
  /\ AtSampledTime
  /\ \E s \in disp : RLt(t_lo, s)
  /\ DisplacedInWindow(u)

-----------------------------------------------------------------------------
(* Properties of the argument binding (SpecCalls) *)

\* the field of the latest call is non-zero at some cell
ForceSeen == \E i \in DOMAIN f_ext : \E j \in DOMAIN f_ext[i] : f_ext[i][j] # 0

\* C21: the function handed to the integrator is called as fun(t, y).  In
\* the heat notebook the call returns what odefun(t, y, params) returns; in
\* the wave notebook, whose odefun is declared odefun(u, t, ...), the call
\* returns what odefun returns for the state y and the time t: the vector
\* unpacked is the integrator's second argument (the dy1dt block of the
\* result is its y2 block) and the time external_force tests is the
\* integrator's first argument (the force is present exactly for 1 < t < 4).
C21_ArgumentBinding ==
  \A i \in DOMAIN calls :
    LET cl == calls[i]
    IN  IF pipeline = "heat"
          THEN cl.r = odefun_heat(cl.t, cl.y, params)
          ELSE /\ cl.r = odefun(cl.y, cl.t, B, x, y, dx, dy, Nx, Ny)
               /\ cl.r.status = "ok" =>
                    /\ cl.r.d = cl.y.d * Kq(dx, dy)
                    /\ \A k \in 0..(Nx * Ny - 1) :
                         cl.r.v[k] = Kq(dx, dy) * cl.y.v[Nx * Ny + k]
                    /\ i = Len(calls) =>
                         /\ arg = cl.y
                         /\ ForceSeen <=>
                              (ForceTimeOpen(cl.t) /\ IndX(x) # {} /\ IndY(y) # {})

C21_Witness ==
  /\ pipeline = "wave"
  /\ Len(calls) >= 2
  /\ calls[Len(calls)].r.status = "ok"
  /\ ForceTimeOpen(calls[Len(calls)].t)
  /\ ForceSeen
  /\ \E k \in 0..(Nx * Ny - 1) : calls[Len(calls)].r.v[k] # 0
  /\ ~ForceTimeOpen(calls[1].t)

-----------------------------------------------------------------------------
(* Properties of the requested evaluation times (SpecDrv) *)

\* C22: once a driver cell has called solve_ivp, the t_eval it was called
\* with is strictly increasing, lies inside the closed t_span of the same
\* call, starts at t_start = 0 and ends at t_end: the integer times 0 .. 50
\* (51 of them) in the heat notebook, 0 .. 100 (101 of them) in the wave
\* notebook.
C22_EvalTimesInSpan ==
  req # NoReq =>
    LET te == req.t_eval
        ts == req.t_span[1]
        tE == req.t_span[2]
        n  == Size(te)
    IN  /\ n = IF pipeline = "heat" THEN 51 ELSE 101
        /\ REq(ts, Rat(0, 1))
        /\ REq(tE, IF pipeline = "heat" THEN Rat(50, 1) ELSE Rat(100, 1))
        /\ DOMAIN te = 0..(n - 1)
        /\ \A k \in DOMAIN te : REq(te[k], Rat(k, 1))
        /\ \A k \in DOMAIN te : RLe(ts, te[k]) /\ RLe(te[k], tE)
        /\ \A k \in 0..(n - 2) : RLt(te[k], te[k + 1])
        /\ REq(te[0], ts)
        /\ REq(te[n - 1], tE)

C22_Witness ==
  /\ req # NoReq
  /\ drv = "returned"
  /\ sol.set /\ sol.success
  /\ sol.cols = Size(req.t_eval)
  /\ REq(tn, req.t_span[2])

-----------------------------------------------------------------------------
(* Properties of the grid spacing (SpecDrv) *)

\* consecutive coordinates of g are d apart
SpacingIs(g, d) ==
  \A i \in DOMAIN g : (i + 1 \in DOMAIN g) => REq(RSub(g[i + 1], g[i]), d)

\* C23 as stated: for every l > 0 and d > 0 for which the grid cell built a
\* grid, consecutive coordinates of x are dx apart and those of y are dy
\* apart, dx and dy being the steps odefun divides by in the Laplacian.
C23_SpacingIsStencilStep ==
  GridsBuilt =>
    /\ (RPos(lx) /\ RPos(dx)) => SpacingIs(x, dx)
    /\ (RPos(ly) /\ RPos(dy)) => SpacingIs(y, dy)

-----------------------------------------------------------------------------
(* Properties of the unforced run (SpecRun) *)

\* every entry of an array is 0
ZeroVec(p) == \A k \in DOMAIN p.v : p.v[k] = 0

\* C24: at every time t <= 1 and every time t >= 4 the wave odefun maps the
\* all-zero state to the all-zero derivative (the stages of a step taken at
\* the zero state with such times are zero), and, the run having started
\* from the zero state, the state is identically zero as long as every
\* right-hand-side evaluation so far used a time t <= 1 (the evaluation
\* times of a run never decrease, so the latest one bounds them all).
C24_QuiescentOutsideForcing ==
  /\ (ZeroVec(u) /\ Len(K) >= 1 /\ (RLe(t, Rat(1, 1)) \/ RLe(Rat(4, 1), t))) =>
       \/ ZeroVec(K[Len(K)]) /\ Size(K[Len(K)].v) = 2 * Nx * Ny
       \/ Len(K) = 2 /\ ~ZeroVec(K[1])
  /\ RLe(t, Rat(1, 1)) => (ZeroVec(u) /\ \A k \in DOMAIN K : ZeroVec(K[k]))

C24_Witness ==
  /\ pipeline = "wave"
  /\ steps >= 1
  /\ ZeroVec(u)
  /\ Size(u.v) = 3362
  /\ Len(K) = 2
  /\ ZeroVec(K[1]) /\ ZeroVec(K[2])
  /\ RLe(Rat(4, 1), t)
  /\ nfev = 4

-----------------------------------------------------------------------------
(* Properties of the force on the notebook's grid (SpecForce) *)

\* the cells at which the recorded field is non-zero
ForcedCells == {ij \in Cells : f_ext[ij[1]][ij[2]] # 0}

\* C25: on the 41 x 41 grid of spacing 0.25, for every call time t in (1, 4)
\* the cells at which external_force is non-zero are exactly those with
\* 10 <= ix <= 14 and 6 <= iy <= 18, 65 cells, none of them in the first or
\* last row or column.
C25_ForcedCellsOfReferenceGrid ==
  (Returned /\ InTimeWindow(t)) =>
    /\ Nx = 41 /\ Ny = 41
    /\ \A i \in DOMAIN x : REq(x[i], Rat(i, 4))
    /\ \A j \in DOMAIN y : REq(y[j], Rat(j, 4))
    /\ ForcedCells = (10..14) \X (6..18)
    /\ Cardinality(ForcedCells) = 65
    /\ \A ij \in ForcedCells : ij[1] \notin {0, 40} /\ ij[2] \notin {0, 40}

C25_Witness ==
  /\ Returned
  /\ InTimeWindow(t)
  /\ Nx = 41 /\ Ny = 41
  /\ f_ext[10][6] = B /\ f_ext[14][18] = B
  /\ f_ext[9][6] = 0 /\ f_ext[14][19] = 0
  /\ B = 1

-----------------------------------------------------------------------------
(* Properties of the heat right-hand side across calls (SpecCalls) *)

\* entry k of the vector a recorded call returned, as a rational
CallRes(cl, k) == Rat(cl.r.v[k], cl.r.d)

\* C26: in the heat notebook, two calls on the same y return the same
\* vector whatever their times, and two calls that returned and whose
\* temperature vectors agree at cell i return the same dTdt[i].
C26_HeatAutonomousCellwise ==
  pipeline = "heat" =>
    \A i \in DOMAIN calls, j \in DOMAIN calls :
      LET ca == calls[i]
          cb == calls[j]
      IN  /\ ca.y = cb.y => ca.r = cb.r
          /\ (ca.r.status = "ok" /\ cb.r.status = "ok") =>
               \A k \in (DOMAIN ca.y.v) \cap (DOMAIN cb.y.v) :
                  REq(At(ca.y, k), At(cb.y, k)) => REq(CallRes(ca, k), CallRes(cb, k))

C26_Witness ==
  /\ pipeline = "heat"
  /\ params.Nx >= 3
  /\ Len(calls) = 3
  /\ calls[1].y = calls[2].y /\ calls[1].t # calls[2].t
  /\ calls[1].r.status = "ok" /\ calls[3].r.status = "ok"
  /\ Size(calls[3].y.v) = params.Nx /\ Size(calls[1].y.v) = params.Nx
  /\ REq(At(calls[1].y, 0), At(calls[3].y, 0))
  /\ ~REq(At(calls[1].y, 1), At(calls[3].y, 1))
  /\ REq(CallRes(calls[1], 0), CallRes(calls[3], 0))
  /\ ~REq(CallRes(calls[1], 1), CallRes(calls[3], 1))

-----------------------------------------------------------------------------
(* Properties of the heat configuration (SpecHeat) *)

\* C27: params['q'] has Nx entries, params['x'] has Nx + 1 so that
\* np.diff(params['x']) has Nx, the notebook's T_init and every state the
\* integrator holds have Nx, and each operation of odefun that combines two
\* arrays combines arrays of one length: Nx - 1 differences into the Nx - 1
\* cells of dq_left[1:] and of dq_right[:-1], and Nx entries with Nx entries
\* in dq/np.diff(x) and in the subtraction of s = y*a; a call returns Nx
\* entries.
C27_HeatLengthsConsistent ==
  pipeline = "heat" =>
    LET n == params.Nx
    IN  /\ Size(params.q.v) = n
        /\ Size(params.x) = n + 1
        /\ Size(diff(params.x)) = n
        /\ n = Nx_heat => Size(T_init.v) = n
        /\ Size(u.v) = n
        /\ SliceFrom(1, n).len = Size(diff(Rats(params.q)))
        /\ SliceTo(-1, n).len = Size(diff(Rats(params.q)))
        /\ pc = "called" =>
             /\ \A k \in DOMAIN K : Size(K[k].v) = n
             /\ (nfev = 1 /\ K = <<>> /\ steps = 0) =>
                  (Size(arg.v) = n /\ res.status = "ok" /\ Size(res.v) = n)

C27_Witness ==
  /\ pipeline = "heat"
  /\ params.Nx = 10
  /\ Size(params.q.v) = 10
  /\ Size(params.x) = 11
  /\ arg = T_init
  /\ res.status = "ok"
  /\ Size(res.v) = 10

====
